---- MODULE Spec2Model ----
(***************************************************************************)
(* The IKEA kitchen-planner extractor: one Express route, POST             *)
(* /extract-items, in two deployed variants.                               *)
(*   "index"    : src/src/index.js   (scoped-DOM strategy, extract v3)     *)
(*   "part_000" : src/unnamed/part_000 (full-text-regex strategy)          *)
(* A request is a JavaScript async call chain.  Node runs the code between *)
(* two awaits without interruption, so every action below is one such run: *)
(* it starts when an awaited Playwright promise settles and ends at the    *)
(* next await (or at the end of the handler).                              *)
(*                                                                         *)
(* JavaScript values that can be undefined are tagged records (Undefined,  *)
(* Str, Num).  Strings that the code inspects character by character are   *)
(* sequences of one-character strings.                                     *)
(***************************************************************************)
EXTENDS Integers, Sequences, FiniteSets, TLC

VARIABLES
    variant,    \* which file is deployed: "index" or "part_000"
    API_KEY,    \* const API_KEY, read from the environment at start-up
    pc,         \* per request: the await the request is suspended at
    req,        \* per request: the x-api-key header and the JSON body
    frame,      \* per request: the locals of the handler / extractItems
    browsers,   \* the browser processes chromium.launch has started
    log,        \* per request: the operations invoked so far, in order, with
                \* "throw", "catch", "reject" (an early 4xx return), and
                \* "closeFailed" / "swallow" when browser.close() rejected
    extraction, \* per request: the promise returned by extractItems (index.js)
    handler,    \* per request: the promise returned by the async route handler
    responses,  \* per request: the HTTP responses written to res
    call        \* the pure function applied last, with arguments and result

vars == <<variant, API_KEY, pc, req, frame, browsers, log, extraction,
          handler, responses, call>>

----------------------------------------------------------------------------
(* JavaScript values *)

Undefined == [t |-> "undefined"]

Null == [t |-> "null"]

Str(s) == [t |-> "string", v |-> s]

Num(n) == [t |-> "number", n |-> n]

\* JavaScript truthiness of the values above (used by !x, x || y, if (x)).
Truthy(x) ==
    CASE x.t = "string" -> x.v # <<>>
      [] x.t = "number" -> x.n # 0
      [] OTHER -> FALSE

Digits == <<"0", "1", "2", "3", "4", "5", "6", "7", "8", "9">>

RECURSIVE DecimalOf(_)
DecimalOf(n) ==
    IF n < 10 THEN <<Digits[n + 1]>>
    ELSE DecimalOf(n \div 10) \o <<Digits[(n % 10) + 1]>>

\* String(x) for the values above (non-negative numbers only).
String(x) ==
    CASE x.t = "string" -> x.v
      [] x.t = "number" -> DecimalOf(x.n)
      [] x.t = "null" -> <<"n", "u", "l", "l">>
      [] OTHER -> <<"u", "n", "d", "e", "f", "i", "n", "e", "d">>

----------------------------------------------------------------------------
(* String constants of the program and the input texts of the model *)

PLANNER_DOMAIN ==
    <<"k", "i", "t", "c", "h", "e", "n", ".", "p", "l", "a", "n", "n", "e", "r", ".", "i", "k",
    "e", "a", ".", "c", "o", "m">>

URL_PLAN ==
    <<"h", "t", "t", "p", "s", ":", "/", "/", "k", "i", "t", "c", "h", "e", "n", ".", "p", "l",
    "a", "n", "n", "e", "r", ".", "i", "k", "e", "a", ".", "c", "o", "m", "/", "p", "l", "a", "n",
    "/", "3", "f", "a", "8", "5", "f", "6", "4", "-", "5", "7", "1", "7", "-", "4", "5", "6", "2",
    "-", "b", "3", "f", "c", "-", "2", "c", "9", "6", "3", "f", "6", "6", "a", "f", "a", "6">>

URL_SUBDOMAIN ==
    <<"h", "t", "t", "p", "s", ":", "/", "/", "e", "u", ".", "k", "i", "t", "c", "h", "e", "n",
    ".", "p", "l", "a", "n", "n", "e", "r", ".", "i", "k", "e", "a", ".", "c", "o", "m", "/", "3",
    "F", "A", "8", "5", "F", "6", "4", "-", "5", "7", "1", "7", "-", "4", "5", "6", "2", "-", "B",
    "3", "F", "C", "-", "2", "C", "9", "6", "3", "F", "6", "6", "A", "F", "A", "6">>

URL_NO_UUID ==
    <<"h", "t", "t", "p", "s", ":", "/", "/", "k", "i", "t", "c", "h", "e", "n", ".", "p", "l",
    "a", "n", "n", "e", "r", ".", "i", "k", "e", "a", ".", "c", "o", "m", "/", "p", "l", "a", "n">>

URL_FOREIGN ==
    <<"h", "t", "t", "p", "s", ":", "/", "/", "e", "x", "a", "m", "p", "l", "e", ".", "o", "r",
    "g", "/", "3", "f", "a", "8", "5", "f", "6", "4", "-", "5", "7", "1", "7", "-", "4", "5", "6",
    "2", "-", "b", "3", "f", "c", "-", "2", "c", "9", "6", "3", "f", "6", "6", "a", "f", "a", "6">>

URL_IN_PATH ==
    <<"h", "t", "t", "p", "s", ":", "/", "/", "e", "v", "i", "l", ".", "e", "x", "a", "m", "p",
    "l", "e", "/", "k", "i", "t", "c", "h", "e", "n", ".", "p", "l", "a", "n", "n", "e", "r", ".",
    "i", "k", "e", "a", ".", "c", "o", "m", "/", "3", "f", "a", "8", "5", "f", "6", "4", "-", "5",
    "7", "1", "7", "-", "4", "5", "6", "2", "-", "b", "3", "f", "c", "-", "2", "c", "9", "6", "3",
    "f", "6", "6", "a", "f", "a", "6">>

URL_IN_QUERY ==
    <<"h", "t", "t", "p", "s", ":", "/", "/", "e", "v", "i", "l", ".", "e", "x", "a", "m", "p",
    "l", "e", "/", "p", "?", "n", "e", "x", "t", "=", "k", "i", "t", "c", "h", "e", "n", ".", "p",
    "l", "a", "n", "n", "e", "r", ".", "i", "k", "e", "a", ".", "c", "o", "m", "&", "i", "d", "=",
    "3", "f", "a", "8", "5", "f", "6", "4", "-", "5", "7", "1", "7", "-", "4", "5", "6", "2", "-",
    "b", "3", "f", "c", "-", "2", "c", "9", "6", "3", "f", "6", "6", "a", "f", "a", "6">>

URL_IN_FRAGMENT ==
    <<"h", "t", "t", "p", "s", ":", "/", "/", "e", "v", "i", "l", ".", "e", "x", "a", "m", "p",
    "l", "e", "/", "3", "f", "a", "8", "5", "f", "6", "4", "-", "5", "7", "1", "7", "-", "4", "5",
    "6", "2", "-", "b", "3", "f", "c", "-", "2", "c", "9", "6", "3", "f", "6", "6", "a", "f", "a",
    "6", "#", "k", "i", "t", "c", "h", "e", "n", ".", "p", "l", "a", "n", "n", "e", "r", ".", "i",
    "k", "e", "a", ".", "c", "o", "m">>

URL_AS_PREFIX ==
    <<"h", "t", "t", "p", "s", ":", "/", "/", "k", "i", "t", "c", "h", "e", "n", ".", "p", "l",
    "a", "n", "n", "e", "r", ".", "i", "k", "e", "a", ".", "c", "o", "m", ".", "e", "v", "i", "l",
    ".", "e", "x", "a", "m", "p", "l", "e", "/", "3", "f", "a", "8", "5", "f", "6", "4", "-", "5",
    "7", "1", "7", "-", "4", "5", "6", "2", "-", "b", "3", "f", "c", "-", "2", "c", "9", "6", "3",
    "f", "6", "6", "a", "f", "a", "6">>

ROW_METOD ==
    <<" ", "M", "E", "T", "O", "D", " ", "6", "0", "x", "8", "0", " ">>

ROW_OTHER ==
    <<"P", "l", "a", "n", " ", "d", "e", " ", "t", "r", "a", "v", "a", "i", "l">>

BODY_ARTICLES ==
    <<"E", "v", "i", "e", "r", " ", "1", "2", "3", ".", "4", "5", "6", ".", "7", "8", " ", "e",
    "t", " ", "1", "2", "3", "-", "4", "5", "6", "-", "7", "8">>

HTML_ARTICLE ==
    <<"<", "l", "i", ">", "9", "8", "7", ".", "6", "5", "4", ".", "3", "2", "<", "/", "l", "i",
    ">">>

IKEA_GAMMES ==
    << <<"R", "I", "N", "G", "H", "U", "L", "T">>,
       <<"A", "X", "S", "T", "A", "D">>,
       <<"V", "O", "X", "T", "O", "R", "P">>,
       <<"K", "U", "N", "G", "S", "B", "A", "C", "K", "A">>,
       <<"L", "E", "R", "H", "Y", "T", "T", "A", "N">>,
       <<"B", "O", "D", "A", "R", "P">>,
       <<"H", "A", "V", "S", "T", "O", "R", "P">>,
       <<"S", "T", "E", "N", "S", "U", "N", "D">>,
       <<"A", "S", "K", "E", "R", "S", "U", "N", "D">>,
       <<"S", "Ä", "V", "E", "D", "A", "L">>,
       <<"T", "O", "R", "H", "A", "M", "N">>,
       <<"E", "K", "E", "S", "T", "A", "D">>,
       <<"J", "U", "T", "I", "S">>,
       <<"H", "I", "T", "T", "A", "R", "P">>,
       <<"F", "Ö", "R", "B", "Ä", "T", "T", "R", "A">>,
       <<"K", "A", "L", "L", "A", "R", "P">>,
       <<"M", "E", "T", "O", "D">>,
       <<"M", "A", "X", "I", "M", "E", "R", "A">>,
       <<"U", "T", "R", "U", "S", "T", "A">> >>
UpperOf ==
    ("a" :> "A") @@ ("b" :> "B") @@ ("c" :> "C") @@ ("d" :> "D") @@ ("e" :> "E") @@ ("f" :> "F") @@ ("g" :> "G") @@ ("h" :> "H") @@ ("i" :> "I") @@ ("j" :> "J") @@ ("k" :> "K") @@ ("l" :> "L") @@ ("m" :> "M") @@ ("n" :> "N") @@ ("o" :> "O") @@ ("p" :> "P") @@ ("q" :> "Q") @@ ("r" :> "R") @@ ("s" :> "S") @@ ("t" :> "T") @@ ("u" :> "U") @@ ("v" :> "V") @@ ("w" :> "W") @@ ("x" :> "X") @@ ("y" :> "Y") @@ ("z" :> "Z") @@ ("ä" :> "Ä") @@ ("ö" :> "Ö")
SECRET_KEY ==
    <<"s", "3", "c", "r", "e", "t">>

WRONG_KEY ==
    <<"g", "u", "e", "s", "s">>

CLIENT_NONCE ==
    <<"n", "-", "1">>

UUID_A ==
    <<"0", "b", "5", "e", "1", "f", "0", "a", "-", "0", "0", "0", "0", "-", "4", "0", "0", "0",
    "-", "8", "0", "0", "0", "-", "0", "0", "0", "0", "0", "0", "0", "0", "0", "0", "0", "a">>

UUID_B ==
    <<"0", "b", "5", "e", "1", "f", "0", "a", "-", "0", "0", "0", "0", "-", "4", "0", "0", "0",
    "-", "8", "0", "0", "0", "-", "0", "0", "0", "0", "0", "0", "0", "0", "0", "0", "0", "b">>


----------------------------------------------------------------------------
(* String primitives *)

\* a conversion that leaves every letter in its case
sameCase(s) == s

\* String.prototype.toUpperCase on the letters the model's texts contain
toUpperCase(s) ==
    [k \in 1..Len(s) |-> IF s[k] \in DOMAIN UpperOf THEN UpperOf[s[k]] ELSE s[k]]

\* String.prototype.includes
includes(s, t) ==
    \E k \in 1..(Len(s) - Len(t) + 1) : SubSeq(s, k, k + Len(t) - 1) = t

\* the characters matched by \s that the model's texts contain
Whitespace == {" ", "\n", "\t"}

\* String.prototype.trim
trim(s) ==
    LET keep == {k \in 1..Len(s) : s[k] \notin Whitespace}
    IN  IF keep = {} THEN <<>>
        ELSE SubSeq(s, CHOOSE a \in keep : \A b \in keep : a <= b,
                       CHOOSE a \in keep : \A b \in keep : a >= b)

\* s.replace(/\s+/g, " "): every maximal run of whitespace becomes one space
CollapseWhitespace(s) ==
    LET kept == {k \in 1..Len(s) :
                    s[k] \notin Whitespace \/ k = 1 \/ s[k - 1] \notin Whitespace}
        pick(n) == CHOOSE k \in kept : Cardinality({j \in kept : j < k}) = n - 1
    IN  [n \in 1..Cardinality(kept) |->
            IF s[pick(n)] \in Whitespace THEN " " ELSE s[pick(n)]]

HexChars ==
    {"0", "1", "2", "3", "4", "5", "6", "7", "8", "9",
     "a", "b", "c", "d", "e", "f", "A", "B", "C", "D", "E", "F"}

DigitChars == {"0", "1", "2", "3", "4", "5", "6", "7", "8", "9"}

\* /([A-F0-9]{8}-[A-F0-9]{4}-[A-F0-9]{4}-[A-F0-9]{4}-[A-F0-9]{12})/i at offset k
UuidPatternAt(s, k) ==
    /\ k + 35 <= Len(s)
    /\ \A d \in 0..35 :
          IF d \in {8, 13, 18, 23} THEN s[k + d] = "-" ELSE s[k + d] \in HexChars

\* /(\d{3})[.\-](\d{3})[.\-](\d{2})/ at offset k
ArticlePatternAt(s, k) ==
    /\ k + 9 <= Len(s)
    /\ \A d \in 0..9 :
          IF d \in {3, 7} THEN s[k + d] \in {".", "-"} ELSE s[k + d] \in DigitChars

Least(S) == CHOOSE a \in S : \A b \in S : a <= b

----------------------------------------------------------------------------
(* Pure functions of the program *)

\* extractPlannerId falling back to the whole URL when nothing matches
extractPlannerIdOrUrl(url) ==
    LET m == {k \in 1..(Len(url) - 35) : UuidPatternAt(url, k)}
    IN  IF m = {} THEN Str(toUpperCase(url))
        ELSE Str(toUpperCase(SubSeq(url, Least(m), Least(m) + 35)))

\* index.js extractPlannerId: first UUID-shaped substring, upper-cased, or null
extractPlannerId(url) ==
    LET m == {k \in 1..(Len(url) - 35) : UuidPatternAt(url, k)}
    IN  IF m = {} THEN Null
        ELSE Str(toUpperCase(SubSeq(url, Least(m), Least(m) + 35)))

\* part_000 extractPlannerId: the same on String(url || "")
extractPlannerIdSimple(url) ==
    extractPlannerId(String(IF Truthy(url) THEN url ELSE Str(<<>>)))

ExtractionError(code, message, step) ==
    [name |-> "ExtractionError", code |-> code, message |-> message, step |-> step]

TypeError(message) ==
    [name |-> "TypeError", message |-> message]

Return(v) == [threw |-> FALSE, value |-> v]

Throw(e) == [threw |-> TRUE, error |-> e]

\* index.js validateUrl; url.includes on a non-string is a TypeError
validateUrl(url) ==
    IF url.t # "string" THEN Throw(TypeError("url.includes is not a function"))
    ELSE IF ~includes(url.v, PLANNER_DOMAIN)
         THEN Throw(ExtractionError("INVALID_DOMAIN", "Domaine invalide", "validate_url"))
    ELSE IF ~Truthy(extractPlannerId(url.v))
         THEN Throw(ExtractionError("MISSING_PLANNER_ID", "UUID manquant", "validate_url"))
    ELSE Return(extractPlannerId(url.v))

\* extractGamme looking for the catalogue entries in the name as written
extractGammeCaseSensitive(name) ==
    LET hits == {g \in 1..Len(IKEA_GAMMES) : includes(name, IKEA_GAMMES[g])}
    IN  IF hits = {} THEN <<"U", "N", "K", "N", "O", "W", "N">>
        ELSE IKEA_GAMMES[Least(hits)]

\* index.js extractGamme: first catalogue entry contained in the upper-cased name
extractGamme(name) ==
    LET upper == toUpperCase(name)
        hits == {g \in 1..Len(IKEA_GAMMES) : includes(upper, IKEA_GAMMES[g])}
    IN  IF hits = {} THEN <<"U", "N", "K", "N", "O", "W", "N">>
        ELSE IKEA_GAMMES[Least(hits)]

\* sha256(payload).digest("hex").substring(0, 12), kept symbolic: the digest
\* is a function of the serialised payload and of nothing else
Sha256Hex12(payload) == [sha256_hex12_of |-> payload]

\* index.js computeExtractionHash: JSON.stringify({items, plannerId, nonce, date})
computeExtractionHash(items, plannerId, nonce, date) ==
    Sha256Hex12(<< <<"items", items>>, <<"plannerId", plannerId>>,
                   <<"nonce", nonce>>, <<"date", date>> >>)

\* part_000 computeHash: items reduced to raw_name, article_number, qty
computeHash(items, plannerId, nonce, extractedAt) ==
    Sha256Hex12(<< <<"items", [k \in 1..Len(items) |->
                                  << <<"raw_name", items[k].raw_name>>,
                                     <<"article_number", items[k].article_number>>,
                                     <<"qty", items[k].qty>> >>]>>,
                   <<"planner_id", plannerId>>,
                   <<"request_nonce", nonce>>,
                   <<"extracted_at", extractedAt>> >>)

\* const start = Math.max(0, m.index - 80), end = Math.min(text.length, m.index + 80)
CONTEXT_WINDOW == 80

Max(a, b) == IF a >= b THEN a ELSE b

Min(a, b) == IF a <= b THEN a ELSE b

\* text.slice(start, end) with 0-based offsets, 0 <= start
slice(text, start, end) == SubSeq(text, start + 1, end)

\* parseItemsFromText remembering the matched text instead of the
\* normalised article number
RECURSIVE ParseFromRawSeen(_, _, _, _)
ParseFromRawSeen(text, from, items, seen) ==
    LET m == {k \in from..(Len(text) - 9) : ArticlePatternAt(text, k)}
    IN  IF m = {} THEN items
        ELSE LET at == Least(m)
                 index == at - 1
                 raw == SubSeq(text, at, at + 9)
                 art == SubSeq(text, at, at + 2) \o <<".">> \o
                        SubSeq(text, at + 4, at + 6) \o <<".">> \o
                        SubSeq(text, at + 8, at + 9)
                 ctx == trim(CollapseWhitespace(
                            slice(text, Max(0, index - CONTEXT_WINDOW),
                                        Min(Len(text), index + CONTEXT_WINDOW))))
                 item == [raw_name |-> IF ctx # <<>> THEN ctx
                                       ELSE <<"U", "N", "K", "N", "O", "W", "N">>,
                          article_number |-> art,
                          qty |-> 1]
             IN  IF raw \in seen
                 THEN ParseFromRawSeen(text, at + 10, items, seen)
                 ELSE ParseFromRawSeen(text, at + 10, Append(items, item),
                                       seen \cup {raw})

\* part_000 parseItemsFromText; from is articlePattern.lastIndex + 1
RECURSIVE ParseFrom(_, _, _, _)
ParseFrom(text, from, items, seen) ==
    LET m == {k \in from..(Len(text) - 9) : ArticlePatternAt(text, k)}
    IN  IF m = {} THEN items
        ELSE LET at == Least(m)
                 index == at - 1
                 art == SubSeq(text, at, at + 2) \o <<".">> \o
                        SubSeq(text, at + 4, at + 6) \o <<".">> \o
                        SubSeq(text, at + 8, at + 9)
                 ctx == trim(CollapseWhitespace(
                            slice(text, Max(0, index - CONTEXT_WINDOW),
                                        Min(Len(text), index + CONTEXT_WINDOW))))
                 item == [raw_name |-> IF ctx # <<>> THEN ctx
                                       ELSE <<"U", "N", "K", "N", "O", "W", "N">>,
                          article_number |-> art,
                          qty |-> 1]
             IN  IF art \in seen
                 THEN ParseFrom(text, at + 10, items, seen)
                 ELSE ParseFrom(text, at + 10, Append(items, item), seen \cup {art})

parseItemsFromText(text) == ParseFrom(text, 1, <<>>, {})

----------------------------------------------------------------------------
(* Inputs of the model *)

Variants == {"index", "part_000"}

\* process.env.API_KEY: unset, or the configured secret
EnvKeys == {Undefined, Str(SECRET_KEY)}

\* req.headers["x-api-key"]
KeyInputs == {Undefined, Str(SECRET_KEY), Str(WRONG_KEY)}

\* req.body.planner_url
UrlInputs ==
    {Undefined, Str(<<>>), Num(42),
     Str(URL_PLAN), Str(URL_SUBDOMAIN), Str(URL_NO_UUID), Str(URL_FOREIGN),
     Str(URL_IN_PATH), Str(URL_IN_QUERY), Str(URL_IN_FRAGMENT), Str(URL_AS_PREFIX)}

\* req.body.request_nonce
NonceInputs == {Undefined, Str(CLIENT_NONCE)}

\* values crypto.randomUUID() can return
RandomUUIDs == {Str(UUID_A), Str(UUID_B)}

\* values new Date().toISOString() can return
Clock == {"2026-01-01T00:00:00.000Z", "2026-01-01T00:00:01.000Z"}

\* texts a row's textContent() can resolve to (index.js)
RowTexts == {ROW_METOD, ROW_OTHER, <<>>}

\* largest number of rows rows.count() resolves to
MaxRows == 2

\* document.body.innerText and page.content() (part_000)
BodyTexts == {<<>>, BODY_ARTICLES}

HtmlTexts == {<<>>, HTML_ARTICLE}

\* pieces the texts given to parseItemsFromText are built from
TOKEN_DOTS ==
    <<"1", "2", "3", ".", "4", "5", "6", ".", "7", "8">>

TOKEN_DASHES ==
    <<"1", "2", "3", "-", "4", "5", "6", "-", "7", "8">>

TOKEN_MIXED ==
    <<"9", "8", "7", "-", "6", "5", "4", ".", "3", "2">>

TOKEN_OVERLAP ==
    <<"1", "1", "1", ".", "2", "2", "2", ".", "3", "3", "3", ".", "4", "4">>

TOKEN_WORD ==
    <<" ", "e", "t", " ">>

TOKEN_BREAK ==
    <<"\n", "\t">>

ParseTokens ==
    <<TOKEN_DOTS, TOKEN_DASHES, TOKEN_MIXED, TOKEN_OVERLAP, TOKEN_WORD, TOKEN_BREAK>>

\* largest number of pieces in one text
MaxTokens == 3

\* the concatenation of a sequence of sequences
RECURSIVE Flatten(_)
Flatten(ss) == IF ss = <<>> THEN <<>> ELSE Head(ss) \o Flatten(Tail(ss))

\* the texts made of at most n of the given pieces
TextsOf(tokens, n) ==
    {Flatten([k \in 1..Len(c) |-> tokens[c[k]]]) :
        c \in UNION {[1..m -> 1..Len(tokens)] : m \in 0..n}}

ParseTexts == TextsOf(ParseTokens, MaxTokens)

\* pieces of the URLs validateUrl and extractPlannerId are applied to, and of
\* the row names extractGamme and the hashes are applied to
URL_ORIGIN ==
    <<"h", "t", "t", "p", "s", ":", "/", "/", "k", "i", "t", "c", "h", "e", "n", ".", "p", "l",
    "a", "n", "n", "e", "r", ".", "i", "k", "e", "a", ".", "c", "o", "m", "/">>

URL_OTHER_ORIGIN ==
    <<"h", "t", "t", "p", "s", ":", "/", "/", "e", "x", "a", "m", "p", "l", "e", ".", "c", "o",
    "m", "/">>

URL_QUERY ==
    <<"?", "l", "a", "n", "g", "=", "f", "r", "&", "i", "d", "=">>

UUID_MIXED ==
    <<"7", "C", "9", "e", "6", "6", "7", "9", "-", "7", "4", "2", "5", "-", "4", "0", "d", "e",
    "-", "9", "4", "4", "B", "-", "e", "0", "7", "f", "c", "1", "f", "9", "0", "a", "e", "7">>

UUID_SHORT ==
    <<"a", "b", "c", "d", "e", "f", "1", "2", "-", "3", "4", "5", "6", "-", "7", "8", "9", "0",
    "-", "a", "b", "c", "d", "-", "e", "f", "1", "2", "3", "4", "5", "6", "7", "8", "9">>

GAMME_UPPER ==
    <<"M", "E", "T", "O", "D">>

GAMME_LOWER ==
    <<"m", "e", "t", "o", "d">>

GAMME_SIZE ==
    <<" ", "6", "0", "x", "8", "0">>

GAMME_FIRST ==
    <<"R", "i", "n", "g", "h", "u", "l", "t">>

GAMME_UMLAUT ==
    <<"s", "ä", "v", "e", "d", "a", "l">>

GAMME_NONE ==
    <<"P", "l", "a", "n", " ">>

NAME_A ==
    <<"M", "E", "T", "O", "D", " ", "6", "0", "x", "8", "0">>

UrlTokens ==
    <<URL_ORIGIN, URL_OTHER_ORIGIN, URL_QUERY, UUID_A, UUID_MIXED, UUID_SHORT>>

UrlTexts == TextsOf(UrlTokens, MaxTokens)

GammeTokens ==
    <<GAMME_UPPER, GAMME_LOWER, GAMME_SIZE, GAMME_FIRST, GAMME_UMLAUT, GAMME_NONE>>

GammeTexts == TextsOf(GammeTokens, MaxTokens)

\* items as index.js builds them: raw_name, gamme, qty
IndexItems ==
    {[raw_name |-> n, gamme |-> g, qty |-> q] :
        n \in {NAME_A}, g \in {GAMME_UPPER, <<"U", "N", "K", "N", "O", "W", "N">>},
        q \in {1, 2}}

\* items as part_000 builds them: raw_name, article_number, qty; and the same
\* with one more field
SimpleItems ==
    {[raw_name |-> NAME_A, article_number |-> a, qty |-> 1] :
        a \in {TOKEN_DOTS, TOKEN_MIXED}}
    \cup {[raw_name |-> NAME_A, article_number |-> TOKEN_DOTS, qty |-> 1, gamme |-> g] :
        g \in {GAMME_UPPER, <<"U", "N", "K", "N", "O", "W", "N">>}}

\* longest item list a hash is computed over
MaxHashItems == 2

ListsOf(items, n) == UNION {[1..m -> items] : m \in 0..n}

\* the request handled by the single-request specification
SingleRequest == {1}

\* number of requests in flight in the concurrent specification
NumRequests == 2

\* several requests are in flight
Concurrent == Cardinality(DOMAIN pc) > 1

\* the values an input is drawn from: all of them for a single request, a
\* few when several requests interleave
Inputs(all, few) == IF Concurrent THEN few ELSE all

\* the awaited promise of op can reject: every one for a single request;
\* the launch, the navigation and the close when several requests interleave
MayReject(op) == ~Concurrent \/ op \in {"launch", "goto", "close"}

----------------------------------------------------------------------------
(* State *)

Promise(state) == [state |-> state]

Fulfilled(v) == [state |-> "fulfilled", value |-> v]

Rejected(e) == [state |-> "rejected", reason |-> e]

NoRequest ==
    [x_api_key |-> Undefined,
     body |-> [planner_url |-> Undefined, request_nonce |-> Undefined]]

\* the locals of one call; browser = 0 is `let browser;` (undefined), otherwise
\* it is the index in browsers of the process chromium.launch resolved to
NoFrame ==
    [extractedAt |-> "", plannerId |-> Undefined, nonce |-> Undefined,
     browser |-> 0, count |-> 0, i |-> 0, items |-> <<>>, bodyText |-> <<>>,
     completion |-> Undefined]

\* no pure function has been applied on its own
NoCall == [done |-> FALSE, fn |-> "none"]

InitOver(R) ==
    /\ variant \in Variants
    /\ \E env \in EnvKeys :
          API_KEY = IF variant = "index" \/ Truthy(env) THEN env ELSE Str(<<>>)
    /\ pc = [r \in R |-> "idle"]
    /\ req = [r \in R |-> NoRequest]
    /\ frame = [r \in R |-> NoFrame]
    /\ browsers = <<>>
    /\ log = [r \in R |-> <<>>]
    /\ extraction = [r \in R |-> Promise("none")]
    /\ handler = [r \in R |-> Promise("none")]
    /\ responses = [r \in R |-> <<>>]

Init == InitOver(SingleRequest) /\ call = NoCall

\* one run of request r: new position and locals, operations invoked,
\* responses written, the two promises, and the browser processes
Run(r, p, f, ops, sent, ex, ha, brs) ==
    /\ pc' = [pc EXCEPT ![r] = p]
    /\ frame' = [frame EXCEPT ![r] = f]
    /\ log' = [log EXCEPT ![r] = @ \o ops]
    /\ responses' = [responses EXCEPT ![r] = @ \o sent]
    /\ extraction' = [extraction EXCEPT ![r] = ex]
    /\ handler' = [handler EXCEPT ![r] = ha]
    /\ browsers' = brs
    /\ UNCHANGED <<variant, API_KEY, call>>

\* res.status(status).json(body)
Response(status, body) == [status |-> status, json |-> TRUE, body |-> body]

\* the reason a Playwright promise rejects with
PlaywrightError(op) == [name |-> "Error", message |-> op \o " failed"]

\* chromium.launch resolved: a new browser process owned by request r
Launched(r) == [launchedBy |-> r, closeCalls |-> 0, state |-> "open"]

\* close landing on the first browser of the process instead of the caller's
CloseInvokedFirst(brs, b) ==
    IF 1 \in DOMAIN brs
    THEN [brs EXCEPT ![1].closeCalls = @ + 1]
    ELSE brs

\* browser.close() is invoked on process b
CloseInvoked(brs, b) ==
    IF b \in DOMAIN brs
    THEN [brs EXCEPT ![b].closeCalls = @ + 1]
    ELSE brs

\* the promise of browser.close() on process b settles; after a rejection the
\* process may or may not be gone
CloseSettled(brs, b, state) ==
    IF b \in DOMAIN brs
    THEN [brs EXCEPT ![b].state = state]
    ELSE brs

\* the finally blocks without their close: the browser is never released
BrowserTruthyNever(b) == FALSE

\* the finally blocks without their guard: close is attempted on every path
BrowserTruthyAlways(b) == TRUE

\* `if (browser)` in the finally blocks
BrowserTruthy(b) == b # 0

----------------------------------------------------------------------------
(* src/src/index.js: auth, the route handler and extractItems *)

\* `const result = await extractItems(..)` resumes with value:
\* res.status(result.success ? 200 : 500).json(result)
IndexDeliver(r, f, value, ops, brs) ==
    Run(r, "done", f, ops \o <<"resolve", "respond">>,
        <<Response(IF value.success THEN 200 ELSE 500, value)>>,
        Fulfilled(value), Fulfilled(Undefined), brs)

\* the finally block of extractItems, entered with the value the try or the
\* catch block returns
IndexFinally(r, f, value, ops) ==
    IF BrowserTruthy(f.browser)
    THEN Run(r, "close", [f EXCEPT !.completion = value], ops \o <<"close">>,
             <<>>, extraction[r], handler[r], CloseInvoked(browsers, f.browser))
    ELSE IndexDeliver(r, f, value, ops, browsers)

\* catch (e) { return { success:false, error_message:e.message }; }
IndexCatch(r, f, e, ops) ==
    IndexFinally(r, f, [success |-> FALSE, error_message |-> e.message],
                 ops \o <<"catch">>)

\* a return statement whose hash was taken before the rows were read
IndexReturnStaleHash(r, f, ops) ==
    IndexFinally(r, f,
        [success |-> TRUE,
         extract_version |-> "v3",
         extraction_hash |->
             computeExtractionHash(<<>>, f.plannerId, f.nonce, f.extractedAt),
         extracted_at |-> f.extractedAt,
         planner_id |-> f.plannerId,
         planner_url |-> req[r].body.planner_url,
         request_nonce |-> f.nonce,
         source_context |-> [modal_found |-> TRUE],
         items |-> f.items],
        ops \o <<"computeExtractionHash">>)

\* the return statement of the try block
IndexReturn(r, f, ops) ==
    IndexFinally(r, f,
        [success |-> TRUE,
         extract_version |-> "v3",
         extraction_hash |->
             computeExtractionHash(f.items, f.plannerId, f.nonce, f.extractedAt),
         extracted_at |-> f.extractedAt,
         planner_id |-> f.plannerId,
         planner_url |-> req[r].body.planner_url,
         request_nonce |-> f.nonce,
         source_context |-> [modal_found |-> TRUE],
         items |-> f.items],
        ops \o <<"computeExtractionHash">>)

\* an auth that only turns away requests without any x-api-key header
authRejectsMissingOnly(key) == Truthy(API_KEY) /\ ~Truthy(key)

\* auth: API_KEY && req.headers['x-api-key'] !== API_KEY
authRejects(key) == Truthy(API_KEY) /\ key # API_KEY

\* a request arrives: auth, the body check, and extractItems up to
\* `await chromium.launch(..)`
IndexReceive(r) ==
    /\ variant = "index"
    /\ pc[r] = "idle"
    /\ \E key \in Inputs(KeyInputs, {Str(SECRET_KEY)}),
          url \in Inputs(UrlInputs, {Str(URL_PLAN)}),
          n \in Inputs(NonceInputs, {Str(CLIENT_NONCE)}),
          now \in Inputs(Clock, {"2026-01-01T00:00:00.000Z"}) :
          /\ req' = [req EXCEPT ![r] =
                        [x_api_key |-> key,
                         body |-> [planner_url |-> url, request_nonce |-> n]]]
          /\ IF authRejects(key)
             THEN Run(r, "done", frame[r], <<"auth", "reject", "respond">>,
                      <<Response(401, [success |-> FALSE, error |-> "UNAUTHORIZED"])>>,
                      extraction[r], Promise("none"), browsers)
             ELSE IF ~Truthy(url) \/ ~Truthy(n)
             THEN Run(r, "done", frame[r], <<"auth", "reject", "respond">>,
                      <<Response(400, [success |-> FALSE])>>,
                      extraction[r], Fulfilled(Undefined), browsers)
             ELSE LET v == validateUrl(url)
                  IN  IF v.threw
                      THEN Run(r, "rejected", [frame[r] EXCEPT !.extractedAt = now],
                               <<"auth", "validate", "throw">>, <<>>,
                               Rejected(v.error), Rejected(v.error), browsers)
                      ELSE Run(r, "launch",
                               [frame[r] EXCEPT !.extractedAt = now,
                                                !.plannerId = v.value,
                                                !.nonce = n],
                               <<"auth", "validate", "launch">>, <<>>,
                               Promise("pending"), Promise("pending"), browsers)

\* an awaited Playwright promise of extractItems settles: on fulfilment the
\* next operation is invoked, on rejection control goes to the catch block
IndexAwait(r, op, next) ==
    /\ variant = "index"
    /\ pc[r] = op
    /\ UNCHANGED req
    /\ \/ Run(r, next, frame[r], <<next>>, <<>>, extraction[r], handler[r], browsers)
       \/ MayReject(op) /\ IndexCatch(r, frame[r], PlaywrightError(op), <<>>)

\* browser = await chromium.launch({ headless: true })
IndexLaunchSettled(r) ==
    /\ variant = "index"
    /\ pc[r] = "launch"
    /\ UNCHANGED req
    /\ \/ Run(r, "newContext", [frame[r] EXCEPT !.browser = Len(browsers) + 1],
              <<"newContext">>, <<>>, extraction[r], handler[r],
              Append(browsers, Launched(r)))
       \/ IndexCatch(r, frame[r], PlaywrightError("launch"), <<>>)

IndexNewContextSettled(r) == IndexAwait(r, "newContext", "newPage")

IndexNewPageSettled(r) == IndexAwait(r, "newPage", "goto")

IndexGotoSettled(r) == IndexAwait(r, "goto", "click")

IndexClickSettled(r) == IndexAwait(r, "click", "waitForTimeout")

IndexWaitSettled(r) == IndexAwait(r, "waitForTimeout", "count")

\* const count = await rows.count(); the loop is entered when count > 0
IndexCountSettled(r) ==
    /\ variant = "index"
    /\ pc[r] = "count"
    /\ UNCHANGED req
    /\ \/ \E count \in Inputs(0..MaxRows, {1}) :
             LET f == [frame[r] EXCEPT !.count = count, !.i = 0, !.items = <<>>]
             IN  IF 0 < count
                 THEN Run(r, "textContent", f, <<"textContent">>, <<>>,
                          extraction[r], handler[r], browsers)
                 ELSE IndexReturn(r, f, <<>>)
       \/ MayReject("count") /\ IndexCatch(r, frame[r], PlaywrightError("count"), <<>>)

\* const text = (await rows.nth(i).textContent()).trim(); items.push(..); i++
IndexTextContentSettled(r) ==
    /\ variant = "index"
    /\ pc[r] = "textContent"
    /\ UNCHANGED req
    /\ \/ \E content \in Inputs(RowTexts, {ROW_METOD}) :
             LET text == trim(content)
                 f == [frame[r] EXCEPT
                          !.items = Append(@, [raw_name |-> text,
                                               gamme |-> extractGamme(text),
                                               qty |-> 1]),
                          !.i = @ + 1]
             IN  IF f.i < f.count
                 THEN Run(r, "textContent", f, <<"textContent">>, <<>>,
                          extraction[r], handler[r], browsers)
                 ELSE IndexReturn(r, f, <<>>)
       \/ \* textContent() resolved to null: null.trim() throws
          /\ MayReject("textContent")
          /\ IndexCatch(r, frame[r],
                 TypeError("Cannot read properties of null (reading 'trim')"), <<>>)
       \/ /\ MayReject("textContent")
          /\ IndexCatch(r, frame[r], PlaywrightError("textContent"), <<>>)

\* `await browser.close()` in the finally block settles: on fulfilment the
\* pending return value is delivered, on rejection the rejection replaces it
IndexCloseSettled(r) ==
    /\ variant = "index"
    /\ pc[r] = "close"
    /\ UNCHANGED req
    /\ LET f == [frame[r] EXCEPT !.completion = Undefined]
           b == frame[r].browser
       IN  \/ IndexDeliver(r, f, frame[r].completion, <<>>, CloseSettled(browsers, b, "closed"))
           \/ \E state \in {"open", "closed"} :
                 Run(r, "rejected", f, <<"closeFailed">>, <<>>,
                     Rejected(PlaywrightError("close")),
                     Rejected(PlaywrightError("close")),
                     CloseSettled(browsers, b, state))

----------------------------------------------------------------------------
(* src/unnamed/part_000: the route handler *)

\* The outer catch (lines 174-180, INTERNAL_ERROR) has no action: the code it
\* guards outside the inner try (header and body reads, string tests,
\* crypto.randomUUID, res.json) does not throw on the inputs of the model.

\* the finally block of the inner try: if (browser) { try { await
\* browser.close(); } catch {} }; the response has been written before
SimpleFinally(r, f, sent, ops) ==
    IF BrowserTruthy(f.browser)
    THEN Run(r, "close", f, ops \o <<"close">>, sent, extraction[r], handler[r],
             CloseInvoked(browsers, f.browser))
    ELSE Run(r, "done", f, ops, sent, extraction[r], Fulfilled(Undefined), browsers)

\* catch (e) { return ok(res, { success: false, .. }); }
SimpleCatch(r, f, e, ops) ==
    SimpleFinally(r, f,
        <<Response(200,
            [success |-> FALSE,
             status |-> "EXTRACTION_FAILED",
             error |-> [code |-> "PLAYWRIGHT_FAILED", message |-> e.message]])>>,
        ops \o <<"catch", "respond">>)

\* parseItemsFromText, computeHash and `return ok(res, { success: true, .. })`
\* (debug.duration_ms, a difference of two clock readings, is left out)
SimpleReturn(r, f, html, ops) ==
    LET combined == f.bodyText \o <<"\n">> \o html
        items == parseItemsFromText(combined)
        hash == computeHash(items, f.plannerId, f.nonce, f.extractedAt)
    IN  SimpleFinally(r, [f EXCEPT !.items = items],
            <<Response(200,
                [success |-> TRUE,
                 status |-> "OK",
                 data |->
                    [extract_version |-> "simple-v1",
                     extraction_method |-> "playwright_no_click",
                     extraction_hash |-> hash,
                     extracted_at |-> f.extractedAt,
                     planner_id |-> f.plannerId,
                     planner_url |-> req[r].body.planner_url,
                     request_nonce |-> f.nonce,
                     totals |-> [items_count |-> Len(items),
                                 total_quantity |-> Len(items)],
                     items |-> items]])>>,
            ops \o <<"parseItemsFromText", "computeHash", "respond">>)

\* !API_KEY || String(clientKey || "") !== String(API_KEY)
SimpleAuthRejects(key) ==
    \/ ~Truthy(API_KEY)
    \/ String(IF Truthy(key) THEN key ELSE Str(<<>>)) # String(API_KEY)

\* a request arrives: auth, body and URL checks, the nonce, up to
\* `await chromium.launch(..)`
SimpleReceive(r) ==
    /\ variant = "part_000"
    /\ pc[r] = "idle"
    /\ \E key \in Inputs(KeyInputs, {Str(SECRET_KEY)}),
          url \in Inputs(UrlInputs, {Str(URL_PLAN)}),
          n \in Inputs(NonceInputs, {Undefined}),
          now \in Inputs(Clock, {"2026-01-01T00:00:00.000Z"}),
          uuid \in Inputs(RandomUUIDs, {Str(UUID_A)}) :
          LET f == [frame[r] EXCEPT !.extractedAt = now]
              Bad(status, body, ops) ==
                  Run(r, "done", f, ops \o <<"reject", "respond">>,
                      <<Response(status, body)>>,
                      extraction[r], Fulfilled(Undefined), browsers)
              plannerId == extractPlannerIdSimple(url)
              nonce == IF Truthy(n) THEN n ELSE uuid
          IN  /\ req' = [req EXCEPT ![r] =
                            [x_api_key |-> key,
                             body |-> [planner_url |-> url, request_nonce |-> n]]]
              /\ IF SimpleAuthRejects(key)
                 THEN Bad(401, [success |-> FALSE, error |-> "UNAUTHORIZED"], <<"auth">>)
                 ELSE IF ~Truthy(url)
                 THEN Bad(400, [success |-> FALSE,
                                error |-> [code |-> "MISSING_URL",
                                           message |-> "planner_url est obligatoire"]],
                          <<"auth">>)
                 ELSE IF ~includes(String(url), PLANNER_DOMAIN)
                 THEN Bad(400, [success |-> FALSE,
                                error |-> [code |-> "INVALID_DOMAIN",
                                           message |-> "URL doit être kitchen.planner.ikea.com"]],
                          <<"auth", "validate">>)
                 ELSE IF ~Truthy(plannerId)
                 THEN Bad(400, [success |-> FALSE,
                                error |-> [code |-> "MISSING_PLANNER_ID",
                                           message |-> "UUID manquant dans l'URL"]],
                          <<"auth", "validate">>)
                 ELSE Run(r, "launch", [f EXCEPT !.plannerId = plannerId, !.nonce = nonce],
                          <<"auth", "validate", "launch">>, <<>>,
                          extraction[r], Promise("pending"), browsers)

\* an awaited Playwright promise of the handler settles
SimpleAwait(r, op, next) ==
    /\ variant = "part_000"
    /\ pc[r] = op
    /\ UNCHANGED req
    /\ \/ Run(r, next, frame[r], <<next>>, <<>>, extraction[r], handler[r], browsers)
       \/ MayReject(op) /\ SimpleCatch(r, frame[r], PlaywrightError(op), <<>>)

\* browser = await chromium.launch({ headless: true })
SimpleLaunchSettled(r) ==
    /\ variant = "part_000"
    /\ pc[r] = "launch"
    /\ UNCHANGED req
    /\ \/ Run(r, "newPage", [frame[r] EXCEPT !.browser = Len(browsers) + 1],
              <<"newPage">>, <<>>, extraction[r], handler[r],
              Append(browsers, Launched(r)))
       \/ SimpleCatch(r, frame[r], PlaywrightError("launch"), <<>>)

SimpleNewPageSettled(r) == SimpleAwait(r, "newPage", "goto")

SimpleGotoSettled(r) == SimpleAwait(r, "goto", "waitForTimeout")

SimpleWaitSettled(r) == SimpleAwait(r, "waitForTimeout", "evaluate")

\* const bodyText = await page.evaluate(() => document.body?.innerText || "")
SimpleEvaluateSettled(r) ==
    /\ variant = "part_000"
    /\ pc[r] = "evaluate"
    /\ UNCHANGED req
    /\ \/ \E bodyText \in Inputs(BodyTexts, {BODY_ARTICLES}) :
             Run(r, "content", [frame[r] EXCEPT !.bodyText = bodyText], <<"content">>,
                 <<>>, extraction[r], handler[r], browsers)
       \/ MayReject("evaluate") /\ SimpleCatch(r, frame[r], PlaywrightError("evaluate"), <<>>)

\* const html = await page.content(), then the rest of the try block
SimpleContentSettled(r) ==
    /\ variant = "part_000"
    /\ pc[r] = "content"
    /\ UNCHANGED req
    /\ \/ \E html \in Inputs(HtmlTexts, {<<>>}) : SimpleReturn(r, frame[r], html, <<>>)
       \/ MayReject("content") /\ SimpleCatch(r, frame[r], PlaywrightError("content"), <<>>)

\* `try { await browser.close(); } catch {}` settles; the handler returns
SimpleCloseSettled(r) ==
    /\ variant = "part_000"
    /\ pc[r] = "close"
    /\ UNCHANGED req
    /\ \/ Run(r, "done", frame[r], <<>>, <<>>, extraction[r], Fulfilled(Undefined),
              CloseSettled(browsers, frame[r].browser, "closed"))
       \/ \E state \in {"open", "closed"} :
             Run(r, "done", frame[r], <<"swallow">>, <<>>, extraction[r],
                 Fulfilled(Undefined),
                 CloseSettled(browsers, frame[r].browser, state))

----------------------------------------------------------------------------
(* Express *)

\* The promise of the async route handler rejected.  Express 4 ignores the
\* promise (no response is written, the rejection is unhandled); Express 5
\* passes the reason to its default error handler, which answers 500 with
\* an HTML page.  The repository does not pin the version.
ExpressHandlerRejected(r) ==
    /\ pc[r] = "rejected"
    /\ UNCHANGED req
    /\ \/ Run(r, "hung", frame[r], <<>>, <<>>, extraction[r], handler[r], browsers)
       \/ Run(r, "done", frame[r], <<"respond">>,
              <<[status |-> 500, json |-> FALSE, body |-> [html |-> TRUE]]>>,
              extraction[r], handler[r], browsers)

Next ==
    \/ \E r \in DOMAIN pc : IndexReceive(r)
    \/ \E r \in DOMAIN pc : IndexLaunchSettled(r)
    \/ \E r \in DOMAIN pc : IndexNewContextSettled(r)
    \/ \E r \in DOMAIN pc : IndexNewPageSettled(r)
    \/ \E r \in DOMAIN pc : IndexGotoSettled(r)
    \/ \E r \in DOMAIN pc : IndexClickSettled(r)
    \/ \E r \in DOMAIN pc : IndexWaitSettled(r)
    \/ \E r \in DOMAIN pc : IndexCountSettled(r)
    \/ \E r \in DOMAIN pc : IndexTextContentSettled(r)
    \/ \E r \in DOMAIN pc : IndexCloseSettled(r)
    \/ \E r \in DOMAIN pc : SimpleReceive(r)
    \/ \E r \in DOMAIN pc : SimpleLaunchSettled(r)
    \/ \E r \in DOMAIN pc : SimpleNewPageSettled(r)
    \/ \E r \in DOMAIN pc : SimpleGotoSettled(r)
    \/ \E r \in DOMAIN pc : SimpleWaitSettled(r)
    \/ \E r \in DOMAIN pc : SimpleEvaluateSettled(r)
    \/ \E r \in DOMAIN pc : SimpleContentSettled(r)
    \/ \E r \in DOMAIN pc : SimpleCloseSettled(r)
    \/ \E r \in DOMAIN pc : ExpressHandlerRejected(r)

Spec == Init /\ [][Next]_vars

\* several requests handled by one server process with a configured key; the
\* runs of different requests interleave at their awaits
InitConcurrent ==
    /\ InitOver(1..NumRequests)
    /\ API_KEY = Str(SECRET_KEY)
    /\ call = NoCall

SpecConcurrent == InitConcurrent /\ [][Next]_vars

----------------------------------------------------------------------------
(* The pure functions applied on their own *)

Pending(fn, input) == [done |-> FALSE, fn |-> fn, input |-> input]

\* the function drawn in `call` is applied to the input drawn for it
Applied(result) ==
    /\ ~call.done
    /\ call' = [done |-> TRUE, fn |-> call.fn, input |-> call.input, result |-> result]
    /\ UNCHANGED <<variant, API_KEY, pc, req, frame, browsers, log, extraction,
                   handler, responses>>

CallParseItemsFromText ==
    /\ call.fn = "parseItemsFromText"
    /\ Applied(parseItemsFromText(call.input[1]))

CallValidateUrl ==
    /\ call.fn = "validateUrl"
    /\ Applied(validateUrl(call.input[1]))

CallExtractPlannerId ==
    /\ call.fn = "extractPlannerId"
    /\ Applied(extractPlannerIdSimple(call.input[1]))

CallExtractGamme ==
    /\ call.fn = "extractGamme"
    /\ Applied(extractGamme(call.input[1]))

\* two computations over item lists a and b with one plannerId, nonce and date
CallComputeExtractionHash ==
    /\ call.fn = "computeExtractionHash"
    /\ Applied(<<computeExtractionHash(call.input[1], call.input[3], call.input[4],
                                       call.input[5]),
                 computeExtractionHash(call.input[2], call.input[3], call.input[4],
                                       call.input[5])>>)

CallComputeHash ==
    /\ call.fn = "computeHash"
    /\ Applied(<<computeHash(call.input[1], call.input[3], call.input[4], call.input[5]),
                 computeHash(call.input[2], call.input[3], call.input[4], call.input[5])>>)

HashInputs(items) ==
    {<<a, b, Str(toUpperCase(UUID_A)), Str(CLIENT_NONCE), date>> :
        a \in ListsOf(items, MaxHashItems), b \in ListsOf(items, MaxHashItems),
        date \in Clock}

PureCalls ==
    {Pending("parseItemsFromText", <<text>>) : text \in ParseTexts}
    \cup {Pending("validateUrl", <<Str(url)>>) : url \in UrlTexts}
    \cup {Pending("extractPlannerId", <<Str(url)>>) : url \in UrlTexts}
    \cup {Pending("extractGamme", <<name>>) : name \in GammeTexts}
    \cup {Pending("computeExtractionHash", input) : input \in HashInputs(IndexItems)}
    \cup {Pending("computeHash", input) : input \in HashInputs(SimpleItems)}

InitPure ==
    /\ InitOver({})
    /\ variant = "part_000"
    /\ API_KEY = Str(<<>>)
    /\ call \in PureCalls

NextPure ==
    \/ CallParseItemsFromText
    \/ CallValidateUrl
    \/ CallExtractPlannerId
    \/ CallExtractGamme
    \/ CallComputeExtractionHash
    \/ CallComputeHash

SpecPure == InitPure /\ [][NextPure]_vars

----------------------------------------------------------------------------
(* Vocabulary of the properties *)

\* the run of request r is over: a response went out and the handler
\* returned ("done"), or Express left the request without an answer ("hung")
Finished(r) == pc[r] \in {"done", "hung"}

\* extractItems / the inner try..finally of part_000 has been left
Exited(r) == pc[r] \in {"done", "hung", "rejected"}

Count(seq, x) == Cardinality({k \in 1..Len(seq) : seq[k] = x})

Positions(seq, x) == {k \in 1..Len(seq) : seq[k] = x}

\* chromium.launch was called for r / resolved for r / rejected for r
LaunchCalled(r) == Count(log[r], "launch") > 0

LaunchSucceeded(r) == \E b \in DOMAIN browsers : browsers[b].launchedBy = r

LaunchFailed(r) == LaunchCalled(r) /\ pc[r] # "launch" /\ ~LaunchSucceeded(r)

\* the request carries the credentials the deployed variant asks for
Authenticated(r) ==
    IF variant = "index"
    THEN ~Truthy(API_KEY) \/ req[r].x_api_key = API_KEY
    ELSE Truthy(API_KEY) /\ req[r].x_api_key = API_KEY

planner_url(r) == req[r].body.planner_url

\* the JSON bodies request r was answered with
JsonBodies(r) ==
    {responses[r][k].body : k \in {j \in 1..Len(responses[r]) : responses[r][j].json}}

\* the failure results of r: what extractItems resolved to, and the JSON
\* bodies written, when success is false
FailureResults(r) ==
    {b \in JsonBodies(r) : ~b.success} \cup
    (IF extraction[r].state = "fulfilled" /\ ~extraction[r].value.success
     THEN {extraction[r].value} ELSE {})

----------------------------------------------------------------------------
(* Properties *)

\* C1: a browser that chromium.launch returned is closed exactly once by the
\* end of its request, on every exit path, in both variants: browser.close()
\* is never invoked twice on it, and once the request that launched it has
\* left its try..finally the number of invocations is one.
C1_ClosedExactlyOnce ==
    \A b \in DOMAIN browsers :
        /\ browsers[b].closeCalls <= 1
        /\ browsers[b].closeCalls = Count(log[browsers[b].launchedBy], "close")
        /\ Exited(browsers[b].launchedBy) => browsers[b].closeCalls = 1

\* a request whose launch succeeded, that failed later (catch block) and is
\* over, with its browser closed once
C1_Witness ==
    \E r \in DOMAIN pc :
        /\ Finished(r)
        /\ LaunchSucceeded(r)
        /\ Count(log[r], "catch") = 1
        /\ browsers[frame[r].browser].closeCalls = 1

\* C2: no fault escapes the orchestrator: neither the promise of extractItems
\* nor the promise of the route handler is ever rejected, extractItems
\* resolves to an envelope with a boolean success field, and a finished
\* request of part_000 was answered with a JSON body with a success field.
C2_NoFaultEscapes ==
    \A r \in DOMAIN pc :
        /\ extraction[r].state # "rejected"
        /\ handler[r].state # "rejected"
        /\ extraction[r].state = "fulfilled" =>
              /\ "success" \in DOMAIN extraction[r].value
              /\ extraction[r].value.success \in BOOLEAN
        /\ (variant = "part_000" /\ Finished(r)) =>
              \E b \in JsonBodies(r) : "success" \in DOMAIN b

\* C3: in a request that launched a browser the result is delivered (the
\* promise of extractItems resolves, the HTTP response is written) only
\* after browser.close() has been invoked for that request.
C3_DeliveredAfterClose ==
    \A r \in DOMAIN pc :
        LaunchSucceeded(r) =>
            \A k \in Positions(log[r], "respond") \cup Positions(log[r], "resolve") :
                \E c \in Positions(log[r], "close") : c < k

\* C4: fail fast: chromium.launch is called for a request only after the
\* validation ran, and only if planner_url is a present string that contains
\* the planner domain and a UUID-shaped substring; a request that passes the
\* x-api-key check and has no planner_url is answered with 400 and nothing
\* else, and no request that stops before the launch has a browser.
C4_FailFast ==
    \A r \in DOMAIN pc :
        /\ LaunchCalled(r) =>
              /\ Truthy(planner_url(r))
              /\ includes(String(planner_url(r)), PLANNER_DOMAIN)
              /\ \E k \in 1..Len(String(planner_url(r))) :
                    UuidPatternAt(String(planner_url(r)), k)
              /\ \E v \in Positions(log[r], "validate") :
                    \A l \in Positions(log[r], "launch") : v < l
        /\ (pc[r] # "idle" /\ Authenticated(r) /\ ~Truthy(planner_url(r))) =>
              /\ Len(responses[r]) = 1
              /\ responses[r][1].status = 400
              /\ ~LaunchCalled(r)
        /\ ~LaunchCalled(r) => ~LaunchSucceeded(r)

\* a request that was validated and then launched its browser
C4_Witness ==
    \E r \in DOMAIN pc :
        /\ LaunchSucceeded(r)
        /\ log[r] = <<"auth", "validate", "launch", "newPage">>

\* the host of a URL: what follows "://" up to the first "/", "?" or "#",
\* without userinfo and port
UrlHost(url) ==
    LET seps == {k \in 1..(Len(url) - 2) : SubSeq(url, k, k + 2) = <<":", "/", "/">>}
        start == IF seps = {} THEN 1 ELSE Least(seps) + 3
        stops == {k \in start..Len(url) : url[k] \in {"/", "?", "#"}}
        end == IF stops = {} THEN Len(url) ELSE Least(stops) - 1
        ats == {k \in start..end : url[k] = "@"}
        from == IF ats = {} THEN start ELSE (CHOOSE a \in ats : \A b \in ats : a >= b) + 1
        colons == {k \in from..end : url[k] = ":"}
        to == IF colons = {} THEN end ELSE Least(colons) - 1
    IN  SubSeq(url, from, to)

\* the host is kitchen.planner.ikea.com or one of its subdomains
HostIsPlanner(url) ==
    LET h == UrlHost(url)
        d == <<".">> \o PLANNER_DOMAIN
    IN  \/ h = PLANNER_DOMAIN
        \/ Len(h) > Len(d) /\ SubSeq(h, Len(h) - Len(d) + 1, Len(h)) = d

HasUuid(url) == \E k \in 1..Len(url) : UuidPatternAt(url, k)

\* the code field of an error object or of a failure body, "none" without one
CodeOf(x) ==
    IF "code" \in DOMAIN x THEN x.code
    ELSE IF "error" \in DOMAIN x THEN x.error.code
    ELSE "none"

MessageOf(x) ==
    IF "error_message" \in DOMAIN x THEN x.error_message
    ELSE IF "error" \in DOMAIN x THEN x.error.message
    ELSE "none"

\* the success envelopes request r was answered with
SuccessResults(r) ==
    {IF "data" \in DOMAIN b THEN b.data ELSE b : b \in {c \in JsonBodies(r) : c.success}}

\* C5: a planner_url whose host is neither kitchen.planner.ikea.com nor a
\* subdomain of it fails validation with INVALID_DOMAIN and never reaches
\* chromium.launch, wherever else the URL mentions that hostname.
C5_ForeignHostRejected ==
    \A r \in DOMAIN pc :
        (/\ Count(log[r], "validate") > 0
         /\ planner_url(r).t = "string"
         /\ ~HostIsPlanner(planner_url(r).v)) =>
            /\ ~LaunchCalled(r)
            /\ IF variant = "index"
               THEN /\ extraction[r].state = "rejected"
                    /\ CodeOf(extraction[r].reason) = "INVALID_DOMAIN"
               ELSE \E b \in FailureResults(r) : CodeOf(b) = "INVALID_DOMAIN"

\* C6: an authenticated request whose planner_url fails the domain check or
\* holds no UUID is answered with HTTP 400 and success = false.
C6_ValidationFailureIs400 ==
    \A r \in DOMAIN pc :
        (/\ Finished(r)
         /\ Authenticated(r)
         /\ Truthy(planner_url(r))
         /\ \/ ~includes(String(planner_url(r)), PLANNER_DOMAIN)
            \/ ~HasUuid(String(planner_url(r)))) =>
            /\ Len(responses[r]) = 1
            /\ responses[r][1].status = 400
            /\ responses[r][1].json
            /\ ~responses[r][1].body.success

\* C7: request_nonce is optional: an authenticated request with a valid
\* planner_url and no request_nonce is not turned away; the server generates
\* a nonce, runs the extraction with it, and a success result carries that
\* nonce and a hash computed over it.
C7_NonceOptional ==
    \A r \in DOMAIN pc :
        (/\ Finished(r)
         /\ Authenticated(r)
         /\ planner_url(r).t = "string"
         /\ includes(planner_url(r).v, PLANNER_DOMAIN)
         /\ HasUuid(planner_url(r).v)
         /\ req[r].body.request_nonce = Undefined) =>
            /\ LaunchCalled(r)
            /\ \A k \in 1..Len(responses[r]) : responses[r][k].status # 400
            /\ Truthy(frame[r].nonce)
            /\ \A e \in SuccessResults(r) :
                  /\ e.request_nonce = frame[r].nonce
                  /\ e.extraction_hash \in
                        {computeHash(e.items, e.planner_id, frame[r].nonce, e.extracted_at),
                         computeExtractionHash(e.items, e.planner_id, frame[r].nonce,
                                               e.extracted_at)}

\* the failure kinds of the specification
FailureKinds ==
    {"INVALID_DOMAIN", "MISSING_PLANNER_ID", "LAUNCH_FAILED", "NAVIGATION_TIMEOUT",
     "MODAL_TIMEOUT", "PARSE_ERROR"}

\* C8: every failure result of a request that reached the URL validation
\* carries one of the six failure kinds as its code, with a message, and the
\* code of a launch failure is LAUNCH_FAILED.
C8_FailureKinds ==
    \A r \in DOMAIN pc :
        Count(log[r], "validate") > 0 =>
            \A b \in FailureResults(r) :
                /\ CodeOf(b) \in FailureKinds
                /\ MessageOf(b) # "none"
                /\ LaunchFailed(r) => CodeOf(b) = "LAUNCH_FAILED"

\* C9 as stated: after a failed chromium.launch the session's close is still
\* invoked exactly once before the failure envelope is returned.
C9_CloseAfterFailedLaunch ==
    \A r \in DOMAIN pc :
        (LaunchFailed(r) /\ Finished(r)) => Count(log[r], "close") = 1

\* C9 as amended: after a failed chromium.launch there is no browser object
\* and browser.close() is not invoked for that request; the request is
\* answered at once with exactly one failure envelope (index.js: extractItems
\* resolves to success = false and the handler answers 500; part_000: 200
\* with success = false).
C9_NoCloseAfterFailedLaunch ==
    \A r \in DOMAIN pc :
        LaunchFailed(r) =>
            /\ Count(log[r], "close") = 0
            /\ frame[r].browser = 0
            /\ Finished(r)
            /\ Len(responses[r]) = 1
            /\ responses[r][1].json
            /\ ~responses[r][1].body.success
            /\ IF variant = "index"
               THEN /\ extraction[r] = Fulfilled(responses[r][1].body)
                    /\ responses[r][1].status = 500
               ELSE responses[r][1].status = 200

\* a request whose launch failed, answered with a failure envelope
C9_Witness ==
    \E r \in DOMAIN pc :
        /\ LaunchFailed(r)
        /\ Finished(r)
        /\ log[r][Len(log[r])] = "respond"
        /\ ~responses[r][1].body.success

\* the pipeline phase of an operation (Validating 1, SessionOpening 2,
\* Navigating 3, LocatingContent 4, Parsing 5, Hashing 6, responding 7)
PhaseRank ==
    [validate |-> 1, launch |-> 2, newContext |-> 2, newPage |-> 2, goto |-> 3,
     click |-> 4, waitForTimeout |-> 4, count |-> 4, evaluate |-> 4, content |-> 4,
     textContent |-> 5, parseItemsFromText |-> 5,
     computeExtractionHash |-> 6, computeHash |-> 6,
     resolve |-> 7, respond |-> 7]

FaultMarks == {"throw", "catch", "reject"}

\* C10: within one request the pipeline operations run in phase order, none
\* is repeated (one textContent per row at most), after a failed step only
\* the close and the delivery of the result follow, and a request in which
\* a step failed ends in a failure result.
C10_PipelineOrder ==
    \A r \in DOMAIN pc :
        LET steps == {k \in 1..Len(log[r]) : log[r][k] \in DOMAIN PhaseRank}
            faults == {k \in 1..Len(log[r]) : log[r][k] \in FaultMarks}
        IN  /\ \A j, k \in steps :
                  j < k => PhaseRank[log[r][j]] <= PhaseRank[log[r][k]]
            /\ \A op \in DOMAIN PhaseRank \ {"textContent"} : Count(log[r], op) <= 1
            /\ Count(log[r], "textContent") <= frame[r].count
            /\ \A f \in faults : \A k \in steps : f < k => PhaseRank[log[r][k]] = 7
            /\ (Finished(r) /\ faults # {}) =>
                  /\ Len(responses[r]) = 1
                  /\ responses[r][1].json
                  /\ ~responses[r][1].body.success

\* C11: under every interleaving of concurrent requests each request holds
\* at most one browser, the one it launched; no two requests hold the same
\* browser; browser.close() is invoked on a browser by its launcher only and
\* at most once; and once every request has finished, every browser has had
\* its close invoked and is closed unless that very close call rejected.
C11_OwnBrowser ==
    /\ \A r \in DOMAIN pc :
          /\ Cardinality({b \in DOMAIN browsers : browsers[b].launchedBy = r}) <= 1
          /\ frame[r].browser # 0 =>
                /\ frame[r].browser \in DOMAIN browsers
                /\ browsers[frame[r].browser].launchedBy = r
          /\ \A q \in DOMAIN pc \ {r} :
                frame[r].browser # 0 => frame[q].browser # frame[r].browser
    /\ \A b \in DOMAIN browsers :
          /\ frame[browsers[b].launchedBy].browser = b
          /\ browsers[b].closeCalls = Count(log[browsers[b].launchedBy], "close")
          /\ browsers[b].closeCalls <= 1
          /\ browsers[b].state = "closed" => browsers[b].closeCalls = 1
    /\ (\A r \in DOMAIN pc : Finished(r)) =>
          \A b \in DOMAIN browsers :
              /\ browsers[b].closeCalls = 1
              /\ \/ browsers[b].state = "closed"
                 \/ Count(log[browsers[b].launchedBy], "closeFailed") > 0
                 \/ Count(log[browsers[b].launchedBy], "swallow") > 0

\* two requests in flight at once, each with its own open browser, one
\* navigating while the other is closing
C11_Witness ==
    \E r, q \in DOMAIN pc :
        /\ r # q
        /\ pc[r] = "goto"
        /\ pc[q] = "close"
        /\ frame[r].browser # 0
        /\ frame[q].browser # 0
        /\ frame[r].browser # frame[q].browser
        /\ browsers[frame[r].browser].state = "open"
        /\ browsers[frame[q].browser].closeCalls = 1

\* C12: with a secret configured, a request whose x-api-key header is absent
\* or differs from the secret is answered with 401 and nothing else, and the
\* core is never invoked for it: no URL validation, no extractItems call, no
\* launch.
C12_WrongKeyIs401 ==
    \A r \in DOMAIN pc :
        (/\ pc[r] # "idle"
         /\ Truthy(API_KEY)
         /\ req[r].x_api_key # API_KEY) =>
            /\ Finished(r)
            /\ Len(responses[r]) = 1
            /\ responses[r][1].status = 401
            /\ ~responses[r][1].body.success
            /\ Count(log[r], "validate") = 0
            /\ extraction[r].state = "none"
            /\ ~LaunchCalled(r)
            /\ ~LaunchSucceeded(r)

\* a request with a wrong key and an otherwise valid body, turned away
C12_Witness ==
    \E r \in DOMAIN pc :
        /\ API_KEY = Str(SECRET_KEY)
        /\ req[r].x_api_key = Str(WRONG_KEY)
        /\ planner_url(r) = Str(URL_PLAN)
        /\ req[r].body.request_nonce = Str(CLIENT_NONCE)
        /\ Len(responses[r]) = 1
        /\ responses[r][1].status = 401

\* C13: scoped-DOM strategy: a failed read of one row skips that row only;
\* once the loop over the rows is left every row has been read, the
\* extraction is not aborted by a catch, and extractItems resolves to a
\* success envelope.
C13_RowFaultSkipsRow ==
    \A r \in DOMAIN pc :
        (/\ variant = "index"
         /\ Count(log[r], "textContent") > 0
         /\ pc[r] # "textContent") =>
            /\ Count(log[r], "textContent") = frame[r].count
            /\ Count(log[r], "catch") = 0
            /\ extraction[r].state = "fulfilled" => extraction[r].value.success

\* the function fn has been applied: `call` holds its input and its result
Called(fn) == call.done /\ call.fn = fn

\* the successive matches of the article pattern in a text, as a global
\* regular-expression scan finds them: leftmost first, never overlapping
RECURSIVE GlobalMatches(_, _)
GlobalMatches(text, from) ==
    LET m == {k \in from..(Len(text) - 9) : ArticlePatternAt(text, k)}
    IN  IF m = {} THEN <<>>
        ELSE <<Least(m)>> \o GlobalMatches(text, Least(m) + 10)

\* the match at offset k with both separators written as dots
Normalized(text, k) ==
    [d \in 1..10 |-> IF d \in {4, 8} THEN "." ELSE text[k + d - 1]]

\* a sequence without the repetitions of its earlier elements
FirstOccurrences(seq) ==
    LET firsts == {k \in 1..Len(seq) : \A j \in 1..(k - 1) : seq[j] # seq[k]}
        nth(n) == CHOOSE k \in firsts : Cardinality({j \in firsts : j < k}) = n - 1
    IN  [n \in 1..Cardinality(firsts) |-> seq[nth(n)]]

\* DDD.DDD.DD
Canonical(art) ==
    /\ Len(art) = 10
    /\ \A d \in 1..10 : IF d \in {4, 8} THEN art[d] = "." ELSE art[d] \in DigitChars

\* C14: the items parseItemsFromText returns carry pairwise distinct article
\* numbers in the form DDD.DDD.DD, and these are exactly the distinct
\* normalised matches of the text in order of first occurrence; a text with
\* 123.456.78 and 123-456-78 yields the single article 123.456.78.
C14_DistinctArticles ==
    Called("parseItemsFromText") =>
        LET text == call.input[1]
            arts == [k \in 1..Len(call.result) |-> call.result[k].article_number]
            found == GlobalMatches(text, 1)
        IN  /\ \A j, k \in 1..Len(arts) : j # k => arts[j] # arts[k]
            /\ \A k \in 1..Len(arts) : Canonical(arts[k])
            /\ arts = FirstOccurrences([k \in 1..Len(found) |-> Normalized(text, found[k])])
            /\ text = TOKEN_DOTS \o TOKEN_WORD \o TOKEN_DASHES => arts = <<TOKEN_DOTS>>

\* the text "123.456.78 et 123-456-78" parsed into one item
C14_Witness ==
    /\ Called("parseItemsFromText")
    /\ call.input[1] = TOKEN_DOTS \o TOKEN_WORD \o TOKEN_DASHES
    /\ Len(call.result) = 1
    /\ call.result[1].article_number = TOKEN_DOTS

\* the article number of an item, the empty string standing for a missing one
ArticleOf(item) ==
    IF "article_number" \in DOMAIN item THEN item.article_number ELSE <<>>

\* two item lists agree, position by position, on raw name, article number
\* and qty
SameIdentity(a, b) ==
    /\ Len(a) = Len(b)
    /\ \A k \in 1..Len(a) :
          /\ a[k].raw_name = b[k].raw_name
          /\ ArticleOf(a[k]) = ArticleOf(b[k])
          /\ a[k].qty = b[k].qty

UuidAt(url, k) ==
    /\ k >= 1
    /\ k + 35 <= Len(url)
    /\ \A d \in 1..36 :
          IF d \in {9, 14, 19, 24} THEN url[k + d - 1] = "-"
          ELSE url[k + d - 1] \in HexChars

HasUuidShape(url) == \E k \in 1..Len(url) : UuidAt(url, k)

\* a and b are one letter, whatever the case of either
SameLetter(a, b) ==
    \/ a = b
    \/ a \in DOMAIN UpperOf /\ UpperOf[a] = b
    \/ b \in DOMAIN UpperOf /\ UpperOf[b] = a

\* id is the first UUID-shaped substring of url, in upper case
FirstUuidUppercased(url, id) ==
    \E k \in 1..Len(url) :
        /\ UuidAt(url, k)
        /\ \A j \in 1..(k - 1) : ~UuidAt(url, j)
        /\ Len(id) = 36
        /\ \A d \in 1..36 :
              /\ SameLetter(id[d], url[k + d - 1])
              /\ id[d] \notin DOMAIN UpperOf

\* C16: for a URL that passes the domain check and holds a UUID-shaped
\* substring, validateUrl returns the first such substring in upper case, and
\* so does extractPlannerId of part_000; for a URL without such a substring
\* that passes the domain check validateUrl fails with MISSING_PLANNER_ID, and
\* for every URL without one extractPlannerId finds no planner id and
\* validateUrl fails.
C16_FirstUuidUppercased ==
    /\ Called("validateUrl") =>
          LET url == call.input[1].v
          IN  /\ includes(url, PLANNER_DOMAIN) /\ HasUuidShape(url) =>
                    /\ ~call.result.threw
                    /\ call.result.value.t = "string"
                    /\ FirstUuidUppercased(url, call.result.value.v)
              /\ ~HasUuidShape(url) =>
                    /\ call.result.threw
                    /\ includes(url, PLANNER_DOMAIN) =>
                          call.result.error.code = "MISSING_PLANNER_ID"
    /\ Called("extractPlannerId") =>
          LET url == call.input[1].v
          IN  /\ HasUuidShape(url) =>
                    /\ call.result.t = "string"
                    /\ FirstUuidUppercased(url, call.result.v)
              /\ ~HasUuidShape(url) => call.result = Null

\* validateUrl applied to a planner URL holding a mixed-case UUID followed by
\* a second UUID, returning the first one in upper case
C16_Witness ==
    /\ Called("validateUrl")
    /\ call.input[1].v = URL_ORIGIN \o UUID_MIXED \o UUID_A
    /\ ~call.result.threw
    /\ call.result.value.v # UUID_MIXED
    /\ FirstUuidUppercased(call.input[1].v, call.result.value.v)

\* the catalogue entry g occurs in the text, whatever the case of the letters
OccursIn(g, text) ==
    \E k \in 1..(Len(text) - Len(g) + 1) :
        \A d \in 1..Len(g) : SameLetter(text[k + d - 1], g[d])

\* C17: extractGamme returns the first entry of IKEA_GAMMES, in catalogue
\* order, that occurs in the row text whatever the case of its letters, and
\* UNKNOWN when no entry occurs; "METOD 60x80" is classified METOD.
C17_FirstCatalogueMatch ==
    Called("extractGamme") =>
        LET text == call.input[1]
            hits == {g \in 1..Len(IKEA_GAMMES) : OccursIn(IKEA_GAMMES[g], text)}
        IN  /\ hits = {} => call.result = <<"U", "N", "K", "N", "O", "W", "N">>
            /\ \A g \in hits :
                  (\A h \in hits : g <= h) => call.result = IKEA_GAMMES[g]
            /\ text = GAMME_UPPER \o GAMME_SIZE => call.result = GAMME_UPPER

\* extractGamme applied to "metodRinghult": two entries occur, in lower and
\* mixed case, and the earlier one of the catalogue is returned
C17_Witness ==
    /\ Called("extractGamme")
    /\ call.input[1] = GAMME_LOWER \o GAMME_FIRST
    /\ call.result = IKEA_GAMMES[1]

\* C18: every item of every success result has a non-empty raw name and the
\* qty 1, in both variants.
C18_ItemsWellFormed ==
    \A r \in DOMAIN pc :
        \A e \in SuccessResults(r) :
            \A k \in 1..Len(e.items) :
                /\ e.items[k].raw_name # <<>>
                /\ e.items[k].qty = 1

\* the hash the deployed variant computes
HashOf(items, plannerId, nonce, extractedAt) ==
    IF variant = "index"
    THEN computeExtractionHash(items, plannerId, nonce, extractedAt)
    ELSE computeHash(items, plannerId, nonce, extractedAt)

\* C19: in every success result the extraction_hash is the hash of the items,
\* planner_id, request_nonce and extracted_at of that same result.
C19_HashOfSameEnvelope ==
    \A r \in DOMAIN pc :
        \A e \in SuccessResults(r) :
            e.extraction_hash =
                HashOf(e.items, e.planner_id, e.request_nonce, e.extracted_at)

\* a request answered with a success result that lists at least one item
C19_Witness ==
    \E r \in DOMAIN pc :
        /\ Finished(r)
        /\ \E e \in SuccessResults(r) :
              /\ e.items # <<>>
              /\ e.extraction_hash =
                    HashOf(e.items, e.planner_id, e.request_nonce, e.extracted_at)

\* C20: every request eventually receives exactly one response, never none
\* and never two: no request ever has two responses, and a request whose run
\* is over, for which no step remains that could answer it, has one.
C20_ExactlyOneResponse ==
    \A r \in DOMAIN pc :
        /\ Len(responses[r]) <= 1
        /\ Finished(r) => Len(responses[r]) = 1

====
